---- MODULE Spec2Model ----
(***************************************************************************)
(* Model of the USPTO redirecting proxy (src/app.py): the process-local    *)
(* token cache, the token acquisition of fetch_pdf_redirect, and the       *)
(* routes /debug, /patent, /patent_direct and /set_token, each handled by  *)
(* a worker thread.  A handler is cut into steps at its accesses to the    *)
(* shared cache (each `with _token_lock` block is one atomic access); the  *)
(* upstream service is a nondeterministic choice of response or exception. *)
(***************************************************************************)
EXTENDS Integers, Sequences, FiniteSets, TLC

(* ---------------------------------------------------------------------- *)
(* Bounds and value domains                                                *)
(* ---------------------------------------------------------------------- *)
MaxRequests == 2                  \* requests served in one behaviour
Threads == {1, 2}                 \* concurrent request handlers
DocIds == {"US1"}                 \* document ids of the inbound requests

None == "None"                    \* Python None (absent header, empty cache, no arg)
QueryTokens == {"", "tq"}         \* ?token= of /debug and /patent_direct ("" absent)
AdminTokens == {"", " ", "tA", " tA"}  \* ?token= of /set_token
UpstreamTokens == {"t2", "t3"}    \* x-access-token values the upstream may mint
Statuses == {200, 401, 403, 500}  \* HTTP statuses of the upstream search
Secrets == {"", "s1", "sF"}       \* ?secret= of /set_token ("" absent)

\* the environments the process is started in: X_ACCESS_TOKEN and TOKEN_SECRET,
\* each both unset and set
Environments ==
  {[X_ACCESS_TOKEN |-> "", TOKEN_SECRET |-> "s1"],
   [X_ACCESS_TOKEN |-> "tE", TOKEN_SECRET |-> ""]}

\* a test `is not None` in place of truthiness: the empty string passes
Truthy_NotNone(x) == x # None

\* Python truthiness of an optional string
Truthy(x) == x \notin {None, ""}

\* Python `a or b`
Or(a, b) == IF Truthy(a) THEN a ELSE b

\* a token read without .strip()
Strip_Missing(s) == s

\* str.strip() on the strings of the model
Strip(s) == IF s = " " THEN "" ELSE IF s = " tA" THEN "tA" ELSE s

VARIABLES
  cached_token,   \* _cached_token
  env,            \* the process environment: X_ACCESS_TOKEN, TOKEN_SECRET
  th,             \* th[t]: the request thread t is handling and its locals
  started,        \* number of requests accepted so far
  token_lock,     \* _token_lock: the client holding it, 0 when free
  cl,             \* cl[c]: a thread calling the cache accessors directly
  pdf             \* one call of build_pdf_url on a token given character by character

vars == <<cached_token, env, th, started, token_lock, cl, pdf>>

\* what no step of a request handler changes
fixed == <<env, token_lock, cl, pdf>>

\* the token hard-coded in the /patent handler
BuiltinToken == "tB"

\* the secret hard-coded in the /set_token handler
secret_fallback == "sF"

\* the sentinel credential of the placeholder attempt
Placeholder == "placeholder"

\* absence of the x-access-token request header
NoHeader == "NoHeader"

\* a response of the upstream search: status and x-access-token header
Responses == [status : Statuses, tok : {None} \cup UpstreamTokens]

\* no response: the call raised (connection error, timeout)
Raised == [status |-> 0, tok |-> "raised"]

NoResp == [status |-> 0, tok |-> None]

\* Redirect Resolver: the download URL, as its document id and requestToken value.
\* The doc ids and tokens of the requests are opaque strings of unreserved
\* characters, which urllib.parse.quote leaves as they are; build_pdf_url_quoted
\* below is the same function on strings given character by character.
build_pdf_url(doc_id, token) == [doc_id |-> doc_id, requestToken |-> token]

NoUrl == [doc_id |-> None, requestToken |-> None]

\* the answer a handler gives: HTTP code, kind of body, and what the body carries
Answer(code, kind, success, url, status) ==
  [code |-> code, kind |-> kind, success |-> success, url |-> url, status |-> status]

NoAnswer == Answer(0, "none", FALSE, NoUrl, 0)

\* Flask's answer to an exception that leaves a handler
ServerError == Answer(500, "error", FALSE, NoUrl, 0)

\* no call of build_pdf_url on a spelled-out token is under way
NoPdf == [pc |-> "none", token |-> <<>>, url |-> [doc_id |-> <<>>, requestToken |-> <<>>]]

Idle ==
  [route |-> "idle", pc |-> "idle", doc_id |-> None, qtoken |-> "", qsecret |-> "",
   token |-> None, seed |-> None, calls |-> <<>>,
   r |-> NoResp, r1 |-> NoResp, resp |-> NoAnswer]

Init ==
  /\ cached_token = None
  /\ env \in Environments
  /\ th = [t \in Threads |-> Idle]
  /\ started = 0
  /\ token_lock = 0
  /\ cl = <<>>
  /\ pdf = NoPdf

\* one outbound call: endpoint, x-access-token request header, allow_redirects,
\* and what came back (a response, or Raised)
HomeCall(out) == [ep |-> "home", cred |-> NoHeader, follow |-> TRUE, out |-> out]
SearchCall(cred, follow, out) ==
  [ep |-> "search", cred |-> cred, follow |-> follow, out |-> out]

\* a set_cached_token that lacks `global _cached_token`: it binds a local
set_cached_token_Local(tok) == UNCHANGED cached_token

\* set_cached_token(tok): `with _token_lock: _cached_token = tok`
set_cached_token(tok) == cached_token' = tok

\* get_cached_token(): `with _token_lock: return _cached_token`
get_cached_token == cached_token

(* ---------------------------------------------------------------------- *)
(* Flask dispatch: a thread accepts a request                              *)
(* ---------------------------------------------------------------------- *)
Accept(t, route, d, q, s) ==
  /\ th[t].pc \in {"idle", "done"}
  /\ started < MaxRequests
  /\ started' = started + 1
  /\ th' = [th EXCEPT ![t] = [Idle EXCEPT !.route = route, !.pc = route,
                                          !.doc_id = d, !.qtoken = q, !.qsecret = s]]
  /\ UNCHANGED <<cached_token, fixed>>

StartDebug(t) == \E d \in DocIds, q \in QueryTokens : Accept(t, "debug", d, q, "")

StartPatent(t) == \E d \in DocIds, q \in QueryTokens : Accept(t, "patent", d, q, "")

StartPatentDirect(t) ==
  \E d \in DocIds, q \in QueryTokens : Accept(t, "patent_direct", d, q, "")

StartSetToken(t) ==
  \E q \in AdminTokens, s \in Secrets : Accept(t, "set_token", None, q, s)

(* ---------------------------------------------------------------------- *)
(* fetch_pdf_redirect, called by /debug                                    *)
(* ---------------------------------------------------------------------- *)
\* a priority that looks at the cache before the query parameter
SeedPriority_CachedFirst(q, cached, e) == Or(cached, Or(q, Strip(e)))

\* token priority: query param > cached > env var
SeedPriority(q, cached, e) == Or(q, Or(cached, Strip(e)))

\* token = request.args.get("token") or get_cached_token() or os.getenv(...).strip()
fetch_read_token(t) ==
  /\ th[t].pc = "debug"
  /\ LET token == SeedPriority(th[t].qtoken, get_cached_token, env.X_ACCESS_TOKEN)
     IN th' = [th EXCEPT ![t].token = token, ![t].seed = token, ![t].pc = "warm"]
  /\ UNCHANGED <<cached_token, started, fixed>>

\* what the cookie warm-up GET can do: return a response (of any status, never
\* looked at), or raise (timeout, connection error)
WarmOutcomes == {NoResp, Raised}

\* a warm-up that is issued again when it raised
AfterWarm_Retry(outcome, token) ==
  IF outcome = Raised THEN "warm" ELSE IF Truthy(token) THEN "seeded" ELSE "bare"

\* a warm_cookies without its try/except: a raised warm-up leaves the handler
AfterWarm_Propagates(outcome, token) ==
  IF outcome = Raised THEN "done" ELSE IF Truthy(token) THEN "seeded" ELSE "bare"

\* where fetch_pdf_redirect goes after warm_cookies: the try/except swallows all
AfterWarm(outcome, token) == IF Truthy(token) THEN "seeded" ELSE "bare"

warm_cookies(t) ==
  /\ th[t].pc = "warm"
  /\ \E o \in WarmOutcomes :
       th' = [th EXCEPT ![t].calls = Append(@, HomeCall(o)),
                        ![t].pc = AfterWarm(o, th[t].token)]
  /\ UNCHANGED <<cached_token, started, fixed>>

\* a try_search_with_token that falls back on the sentinel credential
RefreshedToken_Sentinel(new_tok, token) == Or(new_tok, Placeholder)

\* a try_search_with_token that returns (r, new_tok)
RefreshedToken_HeaderOnly(new_tok, token) == new_tok

\* a try_search_with_token that returns (r, token or new_tok)
RefreshedToken_SeedFirst(new_tok, token) == Or(token, new_tok)

\* try_search_with_token returns (r, new_tok or token)
RefreshedToken(new_tok, token) == Or(new_tok, token)

\* a search POST wrapped in try/except: the failure counts as "no token" and the
\* handler goes on to its next step
Abort_Swallowed(t, cred, follow) ==
  /\ th' = [th EXCEPT ![t].calls = Append(@, SearchCall(cred, follow, Raised)),
                      ![t].r = Raised,
                      ![t].pc = IF th[t].pc = "seeded" THEN "bare"
                                ELSE IF th[t].pc = "bare" THEN "placeholder"
                                ELSE "done"]
  /\ UNCHANGED cached_token

\* the search POST raised and nothing catches it: the exception leaves the
\* handler, which Flask answers with 500
Abort(t, cred, follow) ==
  /\ th' = [th EXCEPT ![t].calls = Append(@, SearchCall(cred, follow, Raised)),
                      ![t].r = Raised, ![t].pc = "done", ![t].resp = ServerError]
  /\ UNCHANGED cached_token

\* a /debug that answers a failed acquisition with a 502
DebugAnswer_BadGateway(url, status) ==
  IF url # NoUrl THEN Answer(200, "json", TRUE, url, status)
  ELSE Answer(502, "json", FALSE, NoUrl, status)

\* /debug's answer to fetch_pdf_redirect's (url, diag): 200 either way
DebugAnswer(url, status) ==
  IF url # NoUrl THEN Answer(200, "json", TRUE, url, status)
  ELSE Answer(200, "json", FALSE, NoUrl, status)

\* if token: r, token = try_search_with_token(...); if token: cache, return
seeded_attempt(t) ==
  /\ th[t].pc = "seeded"
  /\ \/ Abort(t, th[t].token, FALSE)
     \/ \E r \in Responses :
          LET token == RefreshedToken(r.tok, th[t].token)
              calls == Append(th[t].calls, SearchCall(th[t].token, FALSE, r))
          IN IF Truthy(token)
             THEN /\ set_cached_token(token)
                  /\ th' = [th EXCEPT ![t].calls = calls, ![t].r = r,
                                      ![t].token = token, ![t].pc = "done",
                                      ![t].resp =
                                        DebugAnswer(build_pdf_url(th[t].doc_id, token),
                                                    r.status)]
             ELSE /\ th' = [th EXCEPT ![t].calls = calls, ![t].r = r,
                                      ![t].token = token, ![t].pc = "bare"]
                  /\ UNCHANGED cached_token
  /\ UNCHANGED <<started, fixed>>

\* a placeholder condition that reacts to 401 only
NeedsPlaceholder_Only401(status, tok) == status = 401 /\ ~Truthy(tok)

\* a placeholder condition that forgets the status test
NeedsPlaceholder_AnyStatus(status, tok) == ~Truthy(tok)

\* if (r1.status_code in (401, 403)) and not tok
NeedsPlaceholder(status, tok) == status \in {401, 403} /\ ~Truthy(tok)

\* diagnostics taken from the last response instead of r1
DiagStatus_Last(r1, last) == last.status

\* info["step1_status"] = r1.status_code
DiagStatus(r1, last) == r1.status

\* the tail of fetch_pdf_redirect: cache and return the token of the last
\* response, or fail with the diagnostics of r1
Finish(t, cred, last, r1) ==
  LET calls == Append(th[t].calls, SearchCall(cred, FALSE, last)) IN
  IF Truthy(last.tok)
  THEN /\ set_cached_token(last.tok)
       /\ th' = [th EXCEPT ![t].calls = calls, ![t].r = last, ![t].r1 = r1,
                           ![t].pc = "done",
                           ![t].resp =
                             DebugAnswer(build_pdf_url(th[t].doc_id, last.tok),
                                         last.status)]
  ELSE /\ th' = [th EXCEPT ![t].calls = calls, ![t].r = last, ![t].r1 = r1,
                           ![t].pc = "done",
                           ![t].resp = DebugAnswer(NoUrl, DiagStatus(r1, last))]
       /\ UNCHANGED cached_token

\* r1 = s.post(...) with browser_headers(): no credential header
bare_attempt(t) ==
  /\ th[t].pc = "bare"
  /\ \/ Abort(t, NoHeader, FALSE)
     \/ \E r1 \in Responses :
          IF NeedsPlaceholder(r1.status, r1.tok)
          THEN /\ th' = [th EXCEPT ![t].calls =
                                     Append(@, SearchCall(NoHeader, FALSE, r1)),
                                   ![t].r = r1, ![t].r1 = r1, ![t].pc = "placeholder"]
               /\ UNCHANGED cached_token
          ELSE Finish(t, NoHeader, r1, r1)
  /\ UNCHANGED <<started, fixed>>

\* r2 = s.post(...) with x-access-token: placeholder
placeholder_attempt(t) ==
  /\ th[t].pc = "placeholder"
  /\ \/ Abort(t, Placeholder, FALSE)
     \/ \E r2 \in Responses : Finish(t, Placeholder, r2, th[t].r1)
  /\ UNCHANGED <<started, fixed>>

(* ---------------------------------------------------------------------- *)
(* /patent/<doc_id>                                                        *)
(* ---------------------------------------------------------------------- *)
\* the seed of /patent: the cached token, else the built-in one
PatentSeed(q, cached) == IF Truthy(cached) THEN cached ELSE BuiltinToken

\* token = get_cached_token(); if not token: token = <built-in>
patent_read_token(t) ==
  /\ th[t].pc = "patent"
  /\ LET cached == get_cached_token
         token == PatentSeed(th[t].qtoken, cached)
     IN th' = [th EXCEPT ![t].token = token, ![t].seed = token,
                         ![t].pc = IF Truthy(cached) THEN "patent_search"
                                   ELSE "patent_fallback"]
  /\ UNCHANGED <<cached_token, started, fixed>>

\* set_cached_token(token) of the fallback branch
patent_fallback_write(t) ==
  /\ th[t].pc = "patent_fallback"
  /\ set_cached_token(th[t].token)
  /\ th' = [th EXCEPT ![t].pc = "patent_search"]
  /\ UNCHANGED <<started, fixed>>

\* r = s.post(...) with requests' default allow_redirects; new_tok =
\* r.headers.get(...); cache it; redirect with the freshest token
patent_search(t) ==
  /\ th[t].pc = "patent_search"
  /\ \/ Abort(t, th[t].token, TRUE)
     \/ \E r \in Responses :
          LET token == IF Truthy(r.tok) THEN r.tok ELSE th[t].token IN
          /\ IF Truthy(r.tok) THEN set_cached_token(r.tok) ELSE UNCHANGED cached_token
          /\ th' = [th EXCEPT ![t].calls = Append(@, SearchCall(th[t].token, TRUE, r)),
                              ![t].r = r, ![t].token = token, ![t].pc = "done",
                              ![t].resp = Answer(302, "redirect", TRUE,
                                                 build_pdf_url(th[t].doc_id, token),
                                                 r.status)]
  /\ UNCHANGED <<started, fixed>>

(* ---------------------------------------------------------------------- *)
(* /patent_direct/<doc_id>                                                 *)
(* ---------------------------------------------------------------------- *)
\* token = query or cached or env; 400 when there is none
patent_direct_read(t) ==
  /\ th[t].pc = "patent_direct"
  /\ LET token == SeedPriority(th[t].qtoken, get_cached_token, env.X_ACCESS_TOKEN) IN
     IF Truthy(token)
     THEN th' = [th EXCEPT ![t].token = token, ![t].seed = token,
                           ![t].pc = "direct_write"]
     ELSE th' = [th EXCEPT ![t].token = token, ![t].seed = token, ![t].pc = "done",
                           ![t].resp = Answer(400, "json", FALSE, NoUrl, 0)]
  /\ UNCHANGED <<cached_token, started, fixed>>

\* set_cached_token(token); redirect
patent_direct_write(t) ==
  /\ th[t].pc = "direct_write"
  /\ set_cached_token(th[t].token)
  /\ th' = [th EXCEPT ![t].pc = "done",
                      ![t].resp = Answer(302, "redirect", TRUE,
                                         build_pdf_url(th[t].doc_id, th[t].token), 0)]
  /\ UNCHANGED <<started, fixed>>

(* ---------------------------------------------------------------------- *)
(* /set_token                                                              *)
(* ---------------------------------------------------------------------- *)
\* secret = secret_env or secret_fallback
AdminSecret(secret_env) == Or(Strip(secret_env), secret_fallback)

\* the query argument `secret`, None when absent
ArgSecret(s) == IF s = "" THEN None ELSE s

\* a /set_token that does not compare the secret
Authorized_Any(arg, secret) == TRUE

\* request.args.get("secret") != secret rejects the request
Authorized(arg, secret) == arg = secret

set_token(t) ==
  /\ th[t].pc = "set_token"
  /\ LET secret == AdminSecret(env.TOKEN_SECRET)
         tok == Strip(th[t].qtoken)
     IN IF ~Truthy(secret)
        THEN /\ th' = [th EXCEPT ![t].pc = "done",
                                 ![t].resp = Answer(400, "json", FALSE, NoUrl, 0)]
             /\ UNCHANGED cached_token
        ELSE IF ~Authorized(ArgSecret(th[t].qsecret), secret)
        THEN /\ th' = [th EXCEPT ![t].pc = "done",
                                 ![t].resp = Answer(401, "json", FALSE, NoUrl, 0)]
             /\ UNCHANGED cached_token
        ELSE IF ~Truthy(tok)
        THEN /\ th' = [th EXCEPT ![t].pc = "done",
                                 ![t].resp = Answer(400, "json", FALSE, NoUrl, 0)]
             /\ UNCHANGED cached_token
        ELSE /\ set_cached_token(tok)
             /\ th' = [th EXCEPT ![t].token = tok, ![t].pc = "done",
                                 ![t].resp = Answer(200, "json", TRUE, NoUrl, 0)]
  /\ UNCHANGED <<started, fixed>>

(* ---------------------------------------------------------------------- *)
(* The proxy                                                               *)
(* ---------------------------------------------------------------------- *)
Next ==
  \E t \in Threads :
    \/ StartDebug(t)
    \/ StartPatent(t)
    \/ StartPatentDirect(t)
    \/ StartSetToken(t)
    \/ fetch_read_token(t)
    \/ warm_cookies(t)
    \/ seeded_attempt(t)
    \/ bare_attempt(t)
    \/ placeholder_attempt(t)
    \/ patent_read_token(t)
    \/ patent_fallback_write(t)
    \/ patent_search(t)
    \/ patent_direct_read(t)
    \/ patent_direct_write(t)
    \/ set_token(t)

Spec == Init /\ [][Next]_vars

(* ---------------------------------------------------------------------- *)
(* The cache accessors under concurrent callers: NumSetters threads each   *)
(* call set_cached_token once with a token of their own, and one more      *)
(* thread calls get_cached_token MaxGets times.                            *)
(* ---------------------------------------------------------------------- *)
NumSetters == 3
MaxGets == 2

Setters == 1 .. NumSetters
Getter == NumSetters + 1
Clients == 1 .. Getter

\* the distinct tokens the setters pass
SetterTokens == <<"w1", "w2", "w3", "w4", "w5">>
SetterToken(c) == SetterTokens[c]

InitCache ==
  /\ cached_token = None
  /\ env \in Environments
  /\ th = [t \in Threads |-> Idle]
  /\ started = 0
  /\ pdf = NoPdf
  /\ token_lock = 0
  /\ cl = [c \in Clients |->
            IF c \in Setters THEN [pc |-> "set", tok |-> SetterToken(c), got |-> <<>>]
            ELSE [pc |-> "get", tok |-> None, got |-> <<>>]]

\* an accessor that enters its block without waiting for the lock
lock_enter_NoWait(c, from, to) ==
  /\ cl[c].pc = from
  /\ token_lock' = c
  /\ cl' = [cl EXCEPT ![c].pc = to]
  /\ UNCHANGED <<cached_token, env, th, started, pdf>>

\* `with _token_lock:` entered: the lock is taken when free
lock_enter(c, from, to) ==
  /\ cl[c].pc = from
  /\ token_lock = 0
  /\ token_lock' = c
  /\ cl' = [cl EXCEPT ![c].pc = to]
  /\ UNCHANGED <<cached_token, env, th, started, pdf>>

\* set_cached_token: with _token_lock
set_cached_token_enter(c) == c \in Setters /\ lock_enter(c, "set", "set_locked")

\* set_cached_token: _cached_token = tok
set_cached_token_assign(c) ==
  /\ cl[c].pc = "set_locked"
  /\ token_lock = c
  /\ set_cached_token(cl[c].tok)
  /\ cl' = [cl EXCEPT ![c].pc = "set_assigned"]
  /\ UNCHANGED <<env, th, started, token_lock, pdf>>

\* set_cached_token: the with block is left and the call returns
set_cached_token_exit(c) ==
  /\ cl[c].pc = "set_assigned"
  /\ token_lock = c
  /\ token_lock' = 0
  /\ cl' = [cl EXCEPT ![c].pc = "returned"]
  /\ UNCHANGED <<cached_token, env, th, started, pdf>>

\* get_cached_token: with _token_lock
get_cached_token_enter(c) ==
  /\ c = Getter
  /\ Len(cl[c].got) < MaxGets
  /\ lock_enter(c, "get", "get_locked")

\* get_cached_token: return _cached_token, which leaves the with block
get_cached_token_return(c) ==
  /\ cl[c].pc = "get_locked"
  /\ token_lock = c
  /\ token_lock' = 0
  /\ cl' = [cl EXCEPT ![c].pc = "get", ![c].got = Append(@, get_cached_token)]
  /\ UNCHANGED <<cached_token, env, th, started, pdf>>

NextCache ==
  \E c \in Clients :
    \/ set_cached_token_enter(c)
    \/ set_cached_token_assign(c)
    \/ set_cached_token_exit(c)
    \/ get_cached_token_enter(c)
    \/ get_cached_token_return(c)

SpecCache == InitCache /\ [][NextCache]_vars

(* ---------------------------------------------------------------------- *)
(* build_pdf_url on strings given character by character                   *)
(* ---------------------------------------------------------------------- *)
MaxTokenLen == 3

\* the characters tokens are made of: unreserved ones and URL delimiters
Alphabet == {"a", "2", "5", " ", "/", "&", "#", "%", "?"}

\* the tokens build_pdf_url is called with
Tokens == UNION {[1 .. n -> Alphabet] : n \in 0 .. MaxTokenLen}

\* the characters urllib.parse.quote never escapes (letters, digits, _.-~),
\* as far as the tokens and the document id have them
AlwaysSafe == {"a", "2", "5", "U", "S", "1"}

\* the safe parameter of quote, left at its default
DefaultSafe == {"/"}

\* the %XX escape of a character (its code in upper-case hexadecimal)
Escape(c) ==
  CASE c = " " -> <<"%", "2", "0">>
    [] c = "#" -> <<"%", "2", "3">>
    [] c = "%" -> <<"%", "2", "5">>
    [] c = "&" -> <<"%", "2", "6">>
    [] c = "/" -> <<"%", "2", "F">>
    [] c = "?" -> <<"%", "3", "F">>

\* a quote that lets "%" through
quote_char_RawPercent(c) ==
  IF c \in AlwaysSafe \cup DefaultSafe \cup {"%"} THEN <<c>> ELSE Escape(c)

\* quote on one character: kept when always safe or in `safe`, else escaped
quote_char(c) == IF c \in AlwaysSafe \cup DefaultSafe THEN <<c>> ELSE Escape(c)

RECURSIVE quote(_)
\* urllib.parse.quote(s)
quote(s) == IF s = <<>> THEN <<>> ELSE quote_char(Head(s)) \o quote(Tail(s))

\* the document id of the calls
PdfDocId == <<"U", "S", "1">>

\* PPUBS_PDF.format(doc_id=quote(doc_id)) + "?requestToken=" + quote(token), as
\* the path segment and the query value it puts into the template
build_pdf_url_quoted(doc_id, token) ==
  [doc_id |-> quote(doc_id), requestToken |-> quote(token)]

InitUrl ==
  /\ cached_token = None
  /\ env \in Environments
  /\ th = [t \in Threads |-> Idle]
  /\ started = 0
  /\ token_lock = 0
  /\ cl = <<>>
  /\ pdf \in [pc : {"call"}, token : Tokens, url : {NoPdf.url}]

\* build_pdf_url(doc_id, token) is called and returns
build_pdf_url_call ==
  /\ pdf.pc = "call"
  /\ pdf' = [pdf EXCEPT !.pc = "returned",
                        !.url = build_pdf_url_quoted(PdfDocId, pdf.token)]
  /\ UNCHANGED <<cached_token, env, th, started, token_lock, cl>>

NextUrl == build_pdf_url_call

SpecUrl == InitUrl /\ [][NextUrl]_vars

(* ---------------------------------------------------------------------- *)
(* Vocabulary of the properties                                            *)
(* ---------------------------------------------------------------------- *)
IsSearch(c) == c.ep = "search"

\* the kind of an outbound call, told by what the upstream sees
Kind(c) ==
  IF c.ep = "home" THEN "warm"
  ELSE IF c.cred = NoHeader THEN "bare"
  ELSE IF c.cred = Placeholder THEN "placeholder"
  ELSE "seeded"

Kinds(t) == [i \in 1 .. Len(th[t].calls) |-> Kind(th[t].calls[i])]

\* the search calls of thread t's request, in the order issued
Searches(t) == SelectSeq(th[t].calls, IsSearch)

\* every search call of the request returned a response without a token
NoTokenSeen(t) ==
  \A i \in 1 .. Len(th[t].calls) :
    IsSearch(th[t].calls[i]) =>
      th[t].calls[i].out \in Responses /\ th[t].calls[i].out.tok = None

\* thread t takes the step it has at position `from`
Stepped(t, from) == th[t].pc = from /\ th'[t].pc # from

\* thread t's request ended with the token tok: its answer carries the download
\* URL of its document with that token
ReturnsToken(rq, tok) ==
  /\ rq.pc = "done"
  /\ rq.resp.success
  /\ rq.resp.url = build_pdf_url(rq.doc_id, tok)

\* thread t's acquisition ended in the exhaustion failure
Exhausted(rq) == rq.pc = "done" /\ ~rq.resp.success /\ rq.resp.url = NoUrl

Rejected401 == [status |-> 401, tok |-> None]
Accepted200 == [status |-> 200, tok |-> None]

(* ---------------------------------------------------------------------- *)
(* C1                                                                      *)
(* ---------------------------------------------------------------------- *)
\* C1 as stated: when the seeded attempt of an acquisition returns 401 without
\* a token, the acquisition goes on to the placeholder attempt.
C1_Original ==
  \A t \in Threads :
    (/\ th[t].route = "debug"
     /\ Truthy(th[t].seed)
     /\ Len(th[t].calls) = 2
     /\ th[t].calls[2].out = Rejected401)
    => th[t].pc = "placeholder"

\* C1 as amended: a seeded attempt that returns 401 without a token ends the
\* acquisition, which returns the seed and caches it, after the warm-up and the
\* seeded call alone; the placeholder attempt exists only in an acquisition
\* without seed, as its third call after the bare one, and a token t3 in its
\* response is what the acquisition returns and what the cache then holds.
C1_SeededRejected ==
  [][\A t \in Threads :
       /\ (Stepped(t, "seeded") /\ th'[t].r = Rejected401) =>
            /\ ReturnsToken(th'[t], th[t].seed)
            /\ cached_token' = th[t].seed
            /\ Kinds(t)' = <<"warm", "seeded">>
       /\ (Stepped(t, "placeholder") /\ th'[t].r.tok \in UpstreamTokens) =>
            /\ ReturnsToken(th'[t], th'[t].r.tok)
            /\ cached_token' = th'[t].r.tok
            /\ Kinds(t)' = <<"warm", "bare", "placeholder">>
            /\ ~Truthy(th[t].seed)]_vars

\* one acquisition ended on a rejected seeded attempt, returning its seed, and
\* another obtained t3 from the placeholder attempt
C1_Witness ==
  \E t, u \in Threads :
    /\ th[t].route = "debug" /\ Truthy(th[t].seed)
    /\ th[t].r = Rejected401
    /\ ReturnsToken(th[t], th[t].seed)
    /\ cached_token = th[t].seed
    /\ th[u].route = "debug" /\ Kinds(u) = <<"warm", "bare", "placeholder">>
    /\ th[u].r.tok = "t3"
    /\ ReturnsToken(th[u], "t3")

(* ---------------------------------------------------------------------- *)
(* C2                                                                      *)
(* ---------------------------------------------------------------------- *)
\* C2 as stated: a seeded attempt answered 200 without a token returns the seed
\* and leaves the cache as it was.
C2_Original ==
  [][\A t \in Threads :
       (Stepped(t, "seeded") /\ th'[t].r = Accepted200) =>
         /\ ReturnsToken(th'[t], th[t].seed)
         /\ cached_token' = cached_token]_vars

\* C2 as amended: a seeded attempt answered 200 without a token returns the seed
\* and stores the seed in the cache (the cache keeps its value only when the
\* seed came from it).
C2_SeedCached ==
  [][\A t \in Threads :
       (Stepped(t, "seeded") /\ th'[t].r = Accepted200) =>
         /\ ReturnsToken(th'[t], th[t].seed)
         /\ cached_token' = th[t].seed]_vars

\* an acquisition seeded by the query token was answered 200 without a token
\* and returned the seed, which the cache now holds
C2_Witness ==
  \E t \in Threads :
    /\ th[t].route = "debug"
    /\ th[t].seed = "tq"
    /\ th[t].r = Accepted200
    /\ ReturnsToken(th[t], "tq")
    /\ cached_token = "tq"

(* ---------------------------------------------------------------------- *)
(* C3                                                                      *)
(* ---------------------------------------------------------------------- *)
\* C3: when the response to the seeded search of fetch_pdf_redirect or of
\* /patent carries a token t2, the request returns the URL with t2 and the
\* cache holds t2 when the step is over.
C3_NewTokenAdopted ==
  [][\A t \in Threads :
       ((Stepped(t, "seeded") \/ Stepped(t, "patent_search"))
          /\ th'[t].r.tok \in UpstreamTokens) =>
         /\ ReturnsToken(th'[t], th'[t].r.tok)
         /\ cached_token' = th'[t].r.tok]_vars

\* a /debug and a /patent request each had a seed, saw a new token and
\* returned it instead of the seed
C3_Witness ==
  \E t, u \in Threads :
    /\ th[t].route = "debug" /\ th[u].route = "patent"
    /\ Truthy(th[t].seed) /\ Kinds(t) = <<"warm", "seeded">>
    /\ th[t].r.tok = "t2" /\ ReturnsToken(th[t], "t2")
    /\ Truthy(th[u].seed) /\ Kinds(u) = <<"seeded">>
    /\ th[u].r.tok = "t3" /\ ReturnsToken(th[u], "t3")
    /\ th[u].seed = "t2"
    /\ cached_token = "t3"

(* ---------------------------------------------------------------------- *)
(* C4                                                                      *)
(* ---------------------------------------------------------------------- *)
\* C4 as stated: an acquisition none of whose search attempts yields a token,
\* seeded or not, ends in the exhaustion failure, which carries the status of
\* the first search attempt.
C4_Original ==
  \A t \in Threads :
    (/\ th[t].route = "debug" /\ th[t].pc = "done"
     /\ Searches(t) # <<>> /\ NoTokenSeen(t))
    => /\ Exhausted(th[t])
       /\ th[t].resp.status = Searches(t)[1].out.status

\* C4 as amended: an acquisition without seed none of whose search attempts
\* yields a token ends in the exhaustion failure, carrying the status of its
\* first search attempt (the bare one); an acquisition with a seed never ends
\* in exhaustion: it returns its seed.
C4_Exhaustion ==
  \A t \in Threads :
    (/\ th[t].route = "debug" /\ th[t].pc = "done"
     /\ Searches(t) # <<>> /\ NoTokenSeen(t))
    => IF Truthy(th[t].seed)
       THEN ReturnsToken(th[t], th[t].seed)
       ELSE /\ Exhausted(th[t])
            /\ th[t].resp.status = Searches(t)[1].out.status
            /\ Kind(Searches(t)[1]) = "bare"

\* an acquisition without seed was rejected twice, with different statuses,
\* and reports the first
C4_Witness ==
  \E t \in Threads :
    /\ th[t].route = "debug" /\ ~Truthy(th[t].seed)
    /\ Len(Searches(t)) = 2 /\ NoTokenSeen(t)
    /\ Searches(t)[1].out.status = 403
    /\ Searches(t)[2].out.status = 500
    /\ Exhausted(th[t])
    /\ th[t].resp.status = 403

(* ---------------------------------------------------------------------- *)
(* C5                                                                      *)
(* ---------------------------------------------------------------------- *)
\* C5 as stated: in one acquisition the bare attempt is never issued before the
\* placeholder attempt.
C5_Original ==
  \A t \in Threads :
    \A i, j \in 1 .. Len(th[t].calls) :
      (i < j /\ Kind(th[t].calls[i]) = "bare") => Kind(th[t].calls[j]) # "placeholder"

\* C5 as amended: the calls of one acquisition are the warm-up, then either the
\* seeded attempt alone (exactly when there is a seed) or the bare attempt,
\* followed by the placeholder attempt only when the bare attempt returned 401
\* or 403 without a token: the placeholder attempt is never issued before the
\* bare one.
C5_Order ==
  \A t \in Threads :
    th[t].route = "debug" =>
      /\ Kinds(t) \in {<<>>, <<"warm">>, <<"warm", "seeded">>, <<"warm", "bare">>,
                       <<"warm", "bare", "placeholder">>}
      /\ Len(th[t].calls) >= 2 =>
           (Kind(th[t].calls[2]) = "seeded" <=> Truthy(th[t].seed))
      /\ Len(th[t].calls) = 3 =>
           /\ th[t].calls[2].out.status \in {401, 403}
           /\ th[t].calls[2].out.tok = None
      /\ (Len(th[t].calls) = 2 /\ th[t].pc # "done") =>
           /\ th[t].pc = "placeholder"
           /\ th[t].calls[2].out.status \in {401, 403}
           /\ th[t].calls[2].out.tok = None

\* an acquisition issued the bare attempt and then the placeholder attempt
C5_Witness ==
  \E t \in Threads :
    /\ th[t].route = "debug"
    /\ Kinds(t) = <<"warm", "bare", "placeholder">>
    /\ th[t].calls[2].out.status = 403

(* ---------------------------------------------------------------------- *)
(* C6                                                                      *)
(* ---------------------------------------------------------------------- *)
\* C6 as stated: a search call that raises does not abort the acquisition.
C6_Original ==
  \A t \in Threads :
    \A i \in 1 .. Len(th[t].calls) :
      (th[t].route = "debug" /\ IsSearch(th[t].calls[i])
         /\ th[t].calls[i].out = Raised)
      => th[t].resp # ServerError

\* C6 as amended: a search call that raises aborts the acquisition: it is the
\* last call of the request, which ends with the server error and no token;
\* only a raised warm-up is absorbed.
C6_SearchErrorAborts ==
  \A t \in Threads :
    \A i \in 1 .. Len(th[t].calls) :
      (th[t].route = "debug" /\ th[t].calls[i].out = Raised) =>
        IF IsSearch(th[t].calls[i])
        THEN /\ i = Len(th[t].calls)
             /\ th[t].pc = "done"
             /\ th[t].resp = ServerError
        ELSE i = 1 /\ (Len(th[t].calls) = 1 => th[t].pc # "done")

\* the placeholder attempt of an acquisition raised, after a rejected bare one
C6_Witness ==
  \E t \in Threads :
    /\ th[t].route = "debug"
    /\ Kinds(t) = <<"warm", "bare", "placeholder">>
    /\ th[t].calls[3].out = Raised
    /\ th[t].resp = ServerError

(* ---------------------------------------------------------------------- *)
(* C7                                                                      *)
(* ---------------------------------------------------------------------- *)
\* C7: once the warm-up of an acquisition with a seed is over, whatever it did,
\* the acquisition is at its seeded attempt or has issued it with the seed as
\* its second call (and without seed, likewise for the bare attempt): the
\* warm-up never ends or redirects the acquisition.
C7_WarmupAbsorbed ==
  \A t \in Threads :
    (th[t].route = "debug" /\ Len(th[t].calls) >= 1) =>
      LET first == IF Truthy(th[t].seed) THEN "seeded" ELSE "bare" IN
      /\ Kind(th[t].calls[1]) = "warm"
      /\ \/ Len(th[t].calls) = 1 /\ th[t].pc = first
         \/ /\ Len(th[t].calls) >= 2
            /\ Kind(th[t].calls[2]) = first
            /\ Truthy(th[t].seed) => th[t].calls[2].cred = th[t].seed

\* a warm-up timed out and the seeded attempt was issued after it
C7_Witness ==
  \E t \in Threads :
    /\ th[t].route = "debug" /\ Truthy(th[t].seed)
    /\ Len(th[t].calls) = 2
    /\ th[t].calls[1].out = Raised
    /\ Kind(th[t].calls[2]) = "seeded"
    /\ th[t].calls[2].out \in Responses

(* ---------------------------------------------------------------------- *)
(* C8                                                                      *)
(* ---------------------------------------------------------------------- *)
\* thread t's step issued a search whose response carried the token now cached
WrittenBySearch(t) ==
  /\ Len(th'[t].calls) = Len(th[t].calls) + 1
  /\ LET c == th'[t].calls[Len(th'[t].calls)] IN
       IsSearch(c) /\ c.out \in Responses /\ c.out.tok = cached_token'

\* thread t's step is a /set_token with the right secret storing its token
WrittenByAdmin(t) ==
  /\ Stepped(t, "set_token")
  /\ ArgSecret(th[t].qsecret) = AdminSecret(env.TOKEN_SECRET)
  /\ cached_token' = Strip(th[t].qtoken)

\* thread t's step stores the seed of its own request: /patent_direct, the
\* fallback of /patent, or a seeded attempt whose response carried no token
WrittenWithSeed(t) ==
  /\ \/ Stepped(t, "direct_write")
     \/ Stepped(t, "patent_fallback") /\ th[t].seed = BuiltinToken
     \/ Stepped(t, "seeded") /\ th'[t].r.tok = None
  /\ Truthy(th[t].seed)
  /\ cached_token' = th[t].seed

\* C8 as stated: the cached value changes only by a search attempt whose
\* response carried the token stored, or by a /set_token with the right secret.
C8_Original ==
  [][cached_token' # cached_token =>
       \E t \in Threads : WrittenBySearch(t) \/ WrittenByAdmin(t)]_vars

\* C8 as amended: the cached value changes only by a search attempt whose
\* response carried the token stored, by a /set_token with the right secret, or
\* by a request storing its own seed token (/patent_direct, the built-in
\* fallback of /patent, a seeded attempt answered without a token).
C8_CacheWriters ==
  [][cached_token' # cached_token =>
       \E t \in Threads :
         WrittenBySearch(t) \/ WrittenByAdmin(t) \/ WrittenWithSeed(t)]_vars

\* /patent_direct stored the query token over a token an admin had set
C8_Witness ==
  \E t, u \in Threads :
    /\ th[u].route = "set_token" /\ th[u].resp.code = 200 /\ th[u].token = "tA"
    /\ th[t].route = "patent_direct" /\ th[t].pc = "done"
    /\ th[t].seed = "tq"
    /\ cached_token = "tq"

(* ---------------------------------------------------------------------- *)
(* C9                                                                      *)
(* ---------------------------------------------------------------------- *)
\* C9: at most one thread is inside an accessor's locked block; every get
\* returned the initial empty value or the whole token of some setter; and when
\* all NumSetters calls of set_cached_token have returned the cache holds the
\* token of one of them.
C9_AtomicSet ==
  LET passed == {SetterToken(c) : c \in Setters}
      inside == {c \in Clients : cl[c].pc \in {"set_locked", "set_assigned", "get_locked"}}
  IN /\ Cardinality(inside) <= 1
     /\ \A i \in 1 .. Len(cl[Getter].got) : cl[Getter].got[i] \in {None} \cup passed
     /\ cached_token \in {None} \cup passed
     /\ (\A c \in Setters : cl[c].pc = "returned") => cached_token \in passed

\* all setters have returned, and a get saw a token that a later set replaced
C9_Witness ==
  /\ \A c \in Setters : cl[c].pc = "returned"
  /\ Len(cl[Getter].got) = MaxGets
  /\ cl[Getter].got[1] = SetterToken(1)
  /\ cl[Getter].got[MaxGets] = cached_token
  /\ cached_token # SetterToken(1)

(* ---------------------------------------------------------------------- *)
(* C10                                                                     *)
(* ---------------------------------------------------------------------- *)
\* thread t reads its seed in this step
ReadsSeed(t) ==
  th[t].pc \in {"debug", "patent", "patent_direct"} /\ th'[t].pc # th[t].pc

\* query token, else cached token, else one of the fallbacks, else none
Priority(q, cached, fallbacks) ==
  IF Truthy(q) THEN {q} ELSE IF Truthy(cached) THEN {cached} ELSE fallbacks

\* C10 as stated: on every route the seed is the query token if present, else
\* the cached token if present, else the fallback (X_ACCESS_TOKEN, or for
\* /patent its built-in token), else none.
C10_Original ==
  [][\A t \in Threads :
       ReadsSeed(t) =>
         th'[t].seed \in Priority(th[t].qtoken, cached_token,
                                  IF th[t].route = "patent"
                                  THEN {BuiltinToken, Strip(env.X_ACCESS_TOKEN)}
                                  ELSE {Strip(env.X_ACCESS_TOKEN)})]_vars

\* C10 as amended: on /debug (fetch_pdf_redirect) and /patent_direct the seed
\* is the query token if present, else the cached token if present, else
\* X_ACCESS_TOKEN, else none; /patent does not look at the query token: its
\* seed is the cached token if present, else its built-in token.
C10_SeedPriority ==
  [][\A t \in Threads :
       ReadsSeed(t) =>
         th'[t].seed \in
           IF th[t].route = "patent"
           THEN Priority("", cached_token, {BuiltinToken})
           ELSE Priority(th[t].qtoken, cached_token,
                         {Strip(env.X_ACCESS_TOKEN)})]_vars

\* /patent, given a query token and an empty cache, took its built-in token and
\* cached it; /debug, given a query token, took it although the cache held one
C10_Witness ==
  \E t, u \in Threads :
    /\ th[u].route = "patent" /\ th[u].pc = "patent_search"
    /\ th[u].qtoken = "tq" /\ th[u].seed = BuiltinToken
    /\ cached_token = BuiltinToken
    /\ th[t].route = "debug" /\ th[t].pc = "warm"
    /\ th[t].qtoken = "tq" /\ th[t].seed = "tq"

(* ---------------------------------------------------------------------- *)
(* C11                                                                     *)
(* ---------------------------------------------------------------------- *)
\* the /set_token request of thread t presents the right secret
SecretOk(t) == ArgSecret(th[t].qsecret) = AdminSecret(env.TOKEN_SECRET)

\* a token parameter without its surrounding whitespace
Trimmed(q) == IF q \in {"", " "} THEN "" ELSE IF q = " tA" THEN "tA" ELSE q

\* C11 as stated: a /set_token without the right secret or without a token is
\* answered 401 or 400 and leaves the cache alone; the cache is replaced only
\* by a request with the right secret and a non-empty token, and then holds
\* exactly the token of the request.
C11_Original ==
  [][\A t \in Threads :
       Stepped(t, "set_token") =>
         /\ (~SecretOk(t) \/ th[t].qtoken = "") =>
              (th'[t].resp.code \in {400, 401} /\ cached_token' = cached_token)
         /\ (SecretOk(t) /\ th[t].qtoken # "") =>
              (cached_token' = cached_token \/ cached_token' = th[t].qtoken)
         /\ (SecretOk(t) /\ th[t].qtoken \notin {"", " "}) =>
              (th'[t].resp.code = 200 /\ cached_token' = th[t].qtoken)]_vars

\* C11 as amended: a /set_token without the right secret (401), or whose token
\* is absent, empty or only whitespace (400), leaves the cache alone; a request
\* with the right secret and any other token is answered 200 and replaces the
\* cached value with that token stripped of its surrounding whitespace.
C11_AdminUpdate ==
  [][\A t \in Threads :
       Stepped(t, "set_token") =>
         IF ~SecretOk(t)
         THEN th'[t].resp.code = 401 /\ cached_token' = cached_token
         ELSE IF Trimmed(th[t].qtoken) = ""
         THEN th'[t].resp.code = 400 /\ cached_token' = cached_token
         ELSE th'[t].resp.code = 200 /\ cached_token' = Trimmed(th[t].qtoken)]_vars

\* a token was cached; a /set_token with the right secret and a blank token
\* was then refused and left it there
C11_Witness ==
  \E t \in Threads :
    /\ th[t].route = "set_token" /\ th[t].pc = "done"
    /\ SecretOk(t) /\ th[t].qtoken = " "
    /\ th[t].resp.code = 400
    /\ cached_token = "tq"

(* ---------------------------------------------------------------------- *)
(* C12                                                                     *)
(* ---------------------------------------------------------------------- *)
\* the request of thread t ran an acquisition to its end: it is a /debug or a
\* /patent request that was answered, and no exception left its handler
Acquired(t) ==
  /\ th[t].route \in {"debug", "patent"}
  /\ th[t].pc = "done"
  /\ th[t].resp # ServerError

\* C12 as stated: a request that ran the acquisition is answered with a
\* redirect when a token was obtained (the diagnostics route reporting the
\* redirect target instead), and with a diagnostic payload under a status
\* outside 200..299 when the acquisition failed.
C12_Original ==
  \A t \in Threads :
    Acquired(t) =>
      IF th[t].resp.url # NoUrl
      THEN th[t].resp.kind = "redirect" \/ th[t].route = "debug"
      ELSE th[t].resp.kind = "json" /\ th[t].resp.code \notin 200 .. 299

\* C12 as amended: /patent answers with a 302 redirect carrying a token and has
\* no failure answer; /debug answers with a JSON payload under status 200 in
\* both cases, success with the URL when a token was obtained and the failure
\* diagnostics when the acquisition failed.
C12_Answers ==
  \A t \in Threads :
    Acquired(t) =>
      IF th[t].route = "patent"
      THEN /\ th[t].resp.code = 302 /\ th[t].resp.kind = "redirect"
           /\ Truthy(th[t].resp.url.requestToken)
      ELSE /\ th[t].resp.code = 200 /\ th[t].resp.kind = "json"
           /\ th[t].resp.success <=> th[t].resp.url # NoUrl
           /\ th[t].resp.success <=> (Truthy(th[t].seed) \/ ~NoTokenSeen(t))

\* a /debug request whose acquisition failed was answered with status 200
C12_Witness ==
  \E t \in Threads :
    /\ Acquired(t) /\ th[t].route = "debug"
    /\ NoTokenSeen(t) /\ Exhausted(th[t])
    /\ th[t].resp.kind = "json" /\ th[t].resp.code = 200

(* ---------------------------------------------------------------------- *)
(* C13                                                                     *)
(* ---------------------------------------------------------------------- *)
\* C13: every search call issued, on every route, has redirect-following
\* disabled.
C13_NoRedirectFollowing ==
  \A t \in Threads :
    \A i \in 1 .. Len(th[t].calls) :
      IsSearch(th[t].calls[i]) => ~th[t].calls[i].follow

(* ---------------------------------------------------------------------- *)
(* C14                                                                     *)
(* ---------------------------------------------------------------------- *)
\* the hexadecimal digits that occur in escapes and tokens
HexDigits == {"0", "1", "2", "3", "5", "6", "a", "F"}

\* the character a %XX escape stands for ("other": one outside the alphabet)
Unescape(h1, h2) ==
  CASE <<h1, h2>> = <<"2", "0">> -> " "
    [] <<h1, h2>> = <<"2", "3">> -> "#"
    [] <<h1, h2>> = <<"2", "5">> -> "%"
    [] <<h1, h2>> = <<"2", "6">> -> "&"
    [] <<h1, h2>> = <<"2", "F">> -> "/"
    [] <<h1, h2>> = <<"3", "F">> -> "?"
    [] OTHER -> "other"

RECURSIVE unquote(_)
\* percent-decoding of a query value: every %XX becomes its character
unquote(s) ==
  IF s = <<>> THEN <<>>
  ELSE IF Head(s) = "%" /\ Len(s) >= 3 /\ s[2] \in HexDigits /\ s[3] \in HexDigits
  THEN <<Unescape(s[2], s[3])>> \o unquote(SubSeq(s, 4, Len(s)))
  ELSE <<Head(s)>> \o unquote(Tail(s))

Chars(s) == {s[i] : i \in 1 .. Len(s)}

\* C14 as stated: the requestToken value build_pdf_url returns holds no raw
\* special character of the token, space and "/" included, and percent-decoding
\* it gives the token back.
C14_Original ==
  pdf.pc = "returned" =>
    /\ Chars(pdf.url.requestToken) \cap {" ", "/", "&", "#", "?"} = {}
    /\ unquote(pdf.url.requestToken) = pdf.token

\* C14 as amended: the requestToken value holds no raw space, "&", "#" or "?",
\* and "%" only as the start of an escape; a "/" of the token is not encoded
\* and stays raw (quote's default safe characters); percent-decoding the value
\* gives the token back.
C14_QuoteRoundTrip ==
  pdf.pc = "returned" =>
    /\ Chars(pdf.url.requestToken) \cap {" ", "&", "#", "?"} = {}
    /\ ("/" \in Chars(pdf.url.requestToken)) <=> ("/" \in Chars(pdf.token))
    /\ \A i \in 1 .. Len(pdf.url.requestToken) :
         pdf.url.requestToken[i] = "%" =>
           /\ i + 2 <= Len(pdf.url.requestToken)
           /\ <<pdf.url.requestToken[i + 1], pdf.url.requestToken[i + 2]>>
                \in {<<"2", "0">>, <<"2", "3">>, <<"2", "5">>, <<"2", "6">>, <<"3", "F">>}
    /\ unquote(pdf.url.requestToken) = pdf.token
    /\ pdf.url.doc_id = PdfDocId

\* a token with a space, a slash and a percent sign was built into the URL:
\* the space and the percent sign are escaped, the slash is not
C14_Witness ==
  /\ pdf.pc = "returned"
  /\ pdf.token = <<" ", "/", "%">>
  /\ pdf.url.requestToken = <<"%", "2", "0", "/", "%", "2", "5">>

(* ---------------------------------------------------------------------- *)
(* C15                                                                     *)
(* ---------------------------------------------------------------------- *)
\* thread t's acquisition returned and reported the failure (no token)
ReportsFailure(t) == Acquired(t) /\ ~th[t].resp.success

\* C15 as stated: an acquisition that reports failure made both the bare and
\* the placeholder attempt, whatever status the earlier attempts returned.
C15_Original ==
  \A t \in Threads :
    ReportsFailure(t) =>
      /\ \E i \in 1 .. Len(th[t].calls) : Kinds(t)[i] = "bare"
      /\ \E i \in 1 .. Len(th[t].calls) : Kinds(t)[i] = "placeholder"

\* C15 as amended: an acquisition that reports failure had no seed, made the
\* bare attempt, got no token from any attempt, and made the placeholder
\* attempt exactly when the bare attempt returned 401 or 403; after a bare
\* attempt with any other status (200, 500) it fails with the bare attempt alone.
C15_FailureAttempts ==
  \A t \in Threads :
    ReportsFailure(t) =>
      /\ th[t].route = "debug"
      /\ ~Truthy(th[t].seed)
      /\ NoTokenSeen(t)
      /\ Len(th[t].calls) >= 2
      /\ IF th[t].calls[2].out.status \in {401, 403}
         THEN Kinds(t) = <<"warm", "bare", "placeholder">>
         ELSE Kinds(t) = <<"warm", "bare">>

\* an acquisition failed after a bare attempt answered 500 without a token: no
\* placeholder attempt was made
C15_Witness ==
  \E t \in Threads :
    /\ ReportsFailure(t)
    /\ Kinds(t) = <<"warm", "bare">>
    /\ th[t].calls[2].out = [status |-> 500, tok |-> None]

(* ---------------------------------------------------------------------- *)
(* C16                                                                     *)
(* ---------------------------------------------------------------------- *)
\* the tokens the upstream returned in response headers to the calls
ObservedIn(calls) ==
  {calls[i].out.tok :
     i \in {j \in 1 .. Len(calls) : IsSearch(calls[j]) /\ calls[j].out \in Responses}}
    \ {None}

\* thread t's request ends in this step with a download URL
EndsWithUrl(t) ==
  th[t].pc # "done" /\ th'[t].pc = "done" /\ th'[t].resp.url # NoUrl

\* C16: the seed a request reads is its query token, the cached value, the
\* configured fallback or the built-in token; the token of every download URL
\* returned, and every value written to the cache, is the seed of the request
\* writing it, a token observed in a response header of that request, or the
\* token of an authenticated admin update; it is never the sentinel credential.
C16_TokenProvenance ==
  [][/\ \A t \in Threads :
          /\ ReadsSeed(t) =>
               th'[t].seed \in {th[t].qtoken, cached_token,
                                Strip(env.X_ACCESS_TOKEN), BuiltinToken}
          /\ EndsWithUrl(t) =>
               /\ th'[t].resp.url.requestToken
                    \in {th[t].seed} \cup ObservedIn(th'[t].calls)
               /\ th'[t].resp.url.requestToken # Placeholder
     /\ cached_token' # cached_token =>
          /\ cached_token' # Placeholder
          /\ \E t \in Threads :
               \/ th'[t].pc # th[t].pc
                    /\ cached_token' \in {th[t].seed} \cup ObservedIn(th'[t].calls)
               \/ WrittenByAdmin(t)]_vars

\* an acquisition sent the sentinel credential, was answered with the token
\* t2, and returned and cached t2
C16_Witness ==
  \E t \in Threads :
    /\ Kinds(t) = <<"warm", "bare", "placeholder">>
    /\ th[t].calls[3].cred = Placeholder
    /\ th[t].calls[3].out.tok = "t2"
    /\ ReturnsToken(th[t], "t2")
    /\ cached_token = "t2"

(* ---------------------------------------------------------------------- *)
(* C17                                                                     *)
(* ---------------------------------------------------------------------- *)
\* the cache holds a token: neither absent nor the empty string
HoldsToken(v) == v \notin {None, ""}

\* C17: no step stores an absent or empty value in the cache, so once the
\* cache holds a token it holds one in every later state.
C17_NeverEmptied ==
  [][/\ HoldsToken(cached_token) => HoldsToken(cached_token')
     /\ cached_token' # cached_token => HoldsToken(cached_token')]_vars

\* the cache held tq from a /patent_direct; a /patent then searched with it,
\* the response carried no token, and the cache still holds tq
C17_Witness ==
  \E t, u \in Threads :
    /\ th[u].route = "patent_direct" /\ th[u].pc = "done" /\ th[u].seed = "tq"
    /\ th[t].route = "patent" /\ th[t].pc = "done" /\ th[t].seed = "tq"
    /\ th[t].r \in Responses /\ th[t].r.tok = None
    /\ cached_token = "tq"

(* ---------------------------------------------------------------------- *)
(* C18                                                                     *)
(* ---------------------------------------------------------------------- *)
\* C18: /patent writes its built-in fallback token only into an empty cache:
\* at the step of the fallback write the cache holds no token, so the write
\* never replaces a token stored since /patent read the cache.
C18_FallbackKeepsNewer ==
  [][\A t \in Threads :
       Stepped(t, "patent_fallback") =>
         /\ ~HoldsToken(cached_token)
         /\ cached_token' = BuiltinToken]_vars

(* ---------------------------------------------------------------------- *)
(* C19                                                                     *)
(* ---------------------------------------------------------------------- *)
\* how many calls of the kind k thread t's request has issued
CountKind(t, k) ==
  Cardinality({i \in 1 .. Len(th[t].calls) : Kinds(t)[i] = k})

\* the next step of thread t's acquisition can be taken
CanStep(t) ==
  ENABLED (\/ fetch_read_token(t) \/ warm_cookies(t) \/ seeded_attempt(t)
           \/ bare_attempt(t) \/ placeholder_attempt(t))

\* C19: an acquisition issues at most one warm-up call and at most three
\* search calls, each kind of attempt at most once; the number of calls issued
\* is fixed by the position reached (no step is repeated), the next step never
\* waits on anything outside the request, and the acquisition ends with a
\* token, with the exhaustion failure, or with a transport fault.
C19_BoundedAcquisition ==
  \A t \in Threads :
    th[t].route = "debug" =>
      /\ CountKind(t, "warm") <= 1
      /\ Len(Searches(t)) <= 3
      /\ \A k \in {"seeded", "placeholder", "bare"} : CountKind(t, k) <= 1
      /\ th[t].pc \in {"debug", "warm", "seeded", "bare", "placeholder", "done"}
      /\ th[t].pc \in {"debug", "warm"} => Len(th[t].calls) = 0
      /\ th[t].pc \in {"seeded", "bare"} => Len(th[t].calls) = 1
      /\ th[t].pc = "placeholder" => Len(th[t].calls) = 2
      /\ th[t].pc # "done" => CanStep(t)
      /\ th[t].pc = "done" =>
           /\ Len(th[t].calls) \in {2, 3}
           /\ \/ \E tok \in {th[t].seed} \cup ObservedIn(th[t].calls) :
                   HoldsToken(tok) /\ ReturnsToken(th[t], tok)
              \/ /\ Exhausted(th[t]) /\ th[t].resp # ServerError
                 /\ NoTokenSeen(t)
              \/ /\ th[t].resp = ServerError
                 /\ th[t].calls[Len(th[t].calls)].out = Raised

\* an acquisition whose warm-up raised went through the bare and the
\* placeholder attempt and ended in the exhaustion failure: three calls in all
C19_Witness ==
  \E t \in Threads :
    /\ th[t].route = "debug" /\ th[t].pc = "done"
    /\ Kinds(t) = <<"warm", "bare", "placeholder">>
    /\ th[t].calls[1].out = Raised
    /\ Exhausted(th[t]) /\ th[t].resp # ServerError

====
